---- MODULE Spec2Model ----
(***************************************************************************)
(* The crawl pipeline of the OMEGA crawler: the orchestrator (main.py),    *)
(* the site engines (crawlers/*.py), the dispatch queue with its           *)
(* per-source write_done_event, and the writer thread (writer/writer.py).  *)
(***************************************************************************)
EXTENDS Integers, Sequences, FiniteSets, TLC

\* ------------------------------------------------------------------ bounds
\* Largest configured flush threshold (config "batch_size") that is explored.
MaxBatchSize == 2

\* Longest path, in tokens, of the URL strings normalize_url is applied to.
MaxPathLen == 3

\* Largest number of crawl() calls on one engine instance.
MaxRuns == 2

\* ------------------------------------------------------------------- URLs
\* A URL string, cut at its unambiguous delimiters ("://", the first "/", "?"
\* and "#").  The path is the text between netloc and "?", a sequence of
\* tokens with "/" and ";" as tokens of their own, so that rstrip('/') and
\* the params split are computed and not assumed.
MkUrl(scheme, netloc, path, query) ==
    [scheme |-> scheme, netloc |-> netloc, path |-> path, query |-> query,
     fragment |-> ""]

\* Python's None (a missing link, a failed extraction).
NoneVal == [none |-> TRUE]

\* str.lower() on the scheme and host spellings that occur in the model.
lower(str) ==
    CASE str = "HTTP" -> "http"
      [] str = "H" -> "h"
      [] OTHER -> str

\* str.rstrip('/'): every trailing separator is removed.
RECURSIVE rstrip_slash(_)
rstrip_slash(p) ==
    IF p # <<>> /\ p[Len(p)] = "/"
    THEN rstrip_slash(SubSeq(p, 1, Len(p) - 1))
    ELSE p

\* What a raised ValueError is to the caller of a function.
ValueError == [raised |-> "ValueError"]

\* urllib.parse.urlsplit's bracket test on the netloc: '[' without ']' or
\* ']' without '[' raises ValueError("Invalid IPv6 URL"); of the netlocs
\* that occur in the model, "[::1" is the one with an unmatched bracket.
InvalidNetloc(netloc) == netloc \in {"[::1"}

\* urllib.parse._splitparams: the path ends at the first ';' that follows
\* the last '/' (at the first ';' when there is no '/').
splitparams(p) ==
    LET slashes == {i \in 1..Len(p) : p[i] = "/"}
        last == IF slashes = {} THEN 0
                ELSE CHOOSE i \in slashes : \A j \in slashes : j <= i
        semis == {i \in (last + 1)..Len(p) : p[i] = ";"}
    IN IF semis = {} THEN p
       ELSE SubSeq(p, 1, (CHOOSE i \in semis : \A j \in semis : i <= j) - 1)

\* urlparse(url) as normalize_url uses it: it raises on an invalid netloc;
\* otherwise the scheme comes back lower-cased and the path without its
\* params.
urlparse(u) ==
    IF InvalidNetloc(u.netloc) THEN ValueError
    ELSE [scheme |-> lower(u.scheme), netloc |-> u.netloc,
          path |-> splitparams(u.path), query |-> u.query,
          fragment |-> u.fragment]

\* A normalizer that removes one trailing slash and no more.
normalize_url_one_slash(u) ==
    LET parsed == urlparse(u)
        p == parsed.path
    IN IF parsed = ValueError THEN ValueError
       ELSE [scheme |-> lower(parsed.scheme), netloc |-> lower(parsed.netloc),
             path |-> IF p # <<>> /\ p[Len(p)] = "/"
                      THEN SubSeq(p, 1, Len(p) - 1) ELSE p,
             query |-> "", fragment |-> ""]

\* utils/helpers.py normalize_url: urlparse, then urlunparse of the scheme
\* and netloc lower-cased, the path with its trailing slashes stripped, and
\* empty params, query and fragment.  A ValueError of urlparse propagates.
normalize_url(u) ==
    LET parsed == urlparse(u)
    IN IF parsed = ValueError THEN ValueError
       ELSE [scheme |-> lower(parsed.scheme), netloc |-> lower(parsed.netloc),
             path |-> rstrip_slash(parsed.path), query |-> "", fragment |-> ""]

\* Listing URLs, in the textual forms in which configuration and pages spell
\* them.
L0 == MkUrl("http", "h", <<"/", "l0">>, "")
L0s == MkUrl("http", "h", <<"/", "l0", "/">>, "")
L0U == MkUrl("HTTP", "H", <<"/", "l0">>, "")
L1 == MkUrl("http", "h", <<"/", "l1">>, "")
L1q == MkUrl("http", "h", <<"/", "l1">>, "page=2")
LBad == MkUrl("http", "[::1", <<"/", "l0">>, "")
\* L1 spelled with a query that is no page number, and with a fragment.
L1x == MkUrl("http", "h", <<"/", "l1">>, "sort=asc")
L1f == [L1 EXCEPT !.fragment = "top"]

\* Detail (product) URLs; D2s is D2 spelled with a trailing slash.
D1 == MkUrl("http", "h", <<"/", "zbozi", "/", "d1.html">>, "")
D2 == MkUrl("http", "h", <<"/", "zbozi", "/", "d2.html">>, "")
D2s == MkUrl("http", "h", <<"/", "zbozi", "/", "d2.html", "/">>, "")
D3 == MkUrl("http", "h", <<"/", "zbozi", "/", "d3.html">>, "")

\* The hrefs a listing page may carry as its "next" link.
ListingHrefs == {L0, L0s, L1, L1q}

\* The listing pages whose next link the web is free to choose.
LinkedPages == {[path |-> <<"/", "l0">>, query |-> ""],
                [path |-> <<"/", "l1">>, query |-> ""]}

\* The page a server answers a URL with: host case, trailing slashes and
\* the fragment do not select a different page, the query does.
PageOf(u) == [path |-> rstrip_slash(u.path), query |-> u.query]

ListingPages == {PageOf(u) : u \in ListingHrefs}

\* The product anchors of each listing page (hrefs already absolute, so
\* urljoin(current, href) = href).
ProductLinks(p) ==
    CASE p = PageOf(L0) -> {D1, D2}
      [] p = PageOf(L1) -> {D2s}
      [] p = PageOf(L1q) -> {D3}
      [] OTHER -> {}

\* is_article_link of the site engines: a path test that the product URLs of
\* the model pass and the listing URLs fail.
is_article_link(u) ==
    /\ u.scheme \in {"http", "https"}
    /\ \E i \in 1..Len(u.path) : u.path[i] = "zbozi"

\* --------------------------------------------------------------- the state
\* The sources of main.py's write_done_events; each names its engine class.
Sources ==
    {"alza", "datart", "gigacomputer", "planeo", "pocitarna", "stolnipocitace"}

VARIABLES
    \* configuration and environment
    enabled,          \* the sources main.py starts an engine for
    start_urls,       \* config: start_urls of each source
    batch_size,       \* config: batch_size
    nextHref,         \* the web: the "next" link of every listing page
    name,             \* the name each engine was constructed with
    \* orchestrator (main.py)
    mpc,
    \* shared objects
    data_queue,       \* queue.Queue of <<source_name, data>>
    write_done_events,
    \* writer thread
    wpc, wcur, all_data, file,
    \* engines
    epc, ret, listing_queue, visited_listings, product_urls, todo,
    visited_urls, collected_data, start_idx, current_url,
    driver,           \* the browser session of each engine
    obj,              \* identity of the list object self.collected_data
    \* normalize_url applied to a URL, and to its own result
    nu_url, nu_out,
    \* history
    fetched,          \* listing URLs handed to the page loader, in order
    flushed,          \* the batches each engine has put on the queue
    written,          \* the number of batches of each source written out
    extracted,        \* detail URLs whose extraction returned a record
    failed,           \* detail URLs whose page load raised
    handed,           \* the list objects each engine has put on the queue
    enqueued,         \* listing URLs in the order they were queued
    probed,           \* Datart: the candidates probed, each with its result
    tries,            \* the number of extract_data_from_page calls
    runs              \* the number of crawl() calls on each engine

cfgvars == <<enabled, start_urls, batch_size, nextHref, name>>
normvars == <<nu_url, nu_out>>
sharedvars == <<data_queue, write_done_events>>
writervars == <<wpc, wcur, all_data, file, written>>
listingvars == <<listing_queue, visited_listings, product_urls, start_idx,
                 current_url, fetched>>
detailvars == <<todo, visited_urls, extracted, failed>>
enginevars == <<epc, ret, collected_data, flushed, driver, obj, handed>>
histvars == <<enqueued, probed, tries, runs>>
vars == <<cfgvars, normvars, histvars, mpc, sharedvars, writervars,
          listingvars, detailvars, enginevars>>

\* A file of the output directory: absent, or holding what was last written
\* to it; complete is FALSE from open(filename, "w") until the dump is done.
AbsentFile == [exists |-> FALSE, complete |-> FALSE, data |-> <<>>]

\* -------------------------------------------------------------- initial states
\* The state every run starts in once the configuration, the web and the
\* names of the engines are fixed: main() has built the queue and set every
\* event (main.py 22-34).
InitNamed(en, seeds, bs, web, names) ==
    /\ enabled = en
    /\ name = names
    /\ start_urls = seeds
    /\ batch_size = bs
    /\ nextHref = web
    /\ mpc = "start_writer"
    /\ data_queue = <<>>
    /\ write_done_events = [s \in Sources |-> TRUE]
    /\ wpc = "unborn"
    /\ wcur = NoneVal
    /\ all_data = [s \in Sources |-> <<>>]
    /\ file = [s \in Sources |-> AbsentFile]
    /\ written = [s \in Sources |-> 0]
    /\ epc = [s \in Sources |-> "unborn"]
    /\ ret = [s \in Sources |-> "none"]
    /\ listing_queue = [s \in Sources |-> <<>>]
    /\ visited_listings = [s \in Sources |-> {}]
    /\ product_urls = [s \in Sources |-> {}]
    /\ todo = [s \in Sources |-> {}]
    /\ visited_urls = [s \in Sources |-> {}]
    /\ collected_data = [s \in Sources |-> <<>>]
    /\ start_idx = [s \in Sources |-> 1]
    /\ current_url = [s \in Sources |-> NoneVal]
    /\ fetched = [s \in Sources |-> <<>>]
    /\ flushed = [s \in Sources |-> <<>>]
    /\ extracted = [s \in Sources |-> {}]
    /\ failed = [s \in Sources |-> {}]
    /\ driver = [s \in Sources |-> "none"]
    /\ obj = [s \in Sources |-> 0]
    /\ handed = [s \in Sources |-> {}]
    /\ enqueued = [s \in Sources |-> <<>>]
    /\ probed = [s \in Sources |-> {}]
    /\ tries = [s \in Sources |-> 0]
    /\ runs = [s \in Sources |-> 0]

\* main.py as written: every engine is constructed with the key its event
\* has in write_done_events.
InitWith(en, seeds, bs, web) ==
    InitNamed(en, seeds, bs, web, [s \in Sources |-> s])

\* Scenario B of the design: L0 -> L1 -> L0, the back link spelled with a
\* trailing slash.
CyclicWeb ==
    [p \in ListingPages |->
        CASE p = PageOf(L0) -> L1
          [] p = PageOf(L1) -> L0s
          [] OTHER -> NoneVal]

\* The start_urls lists explored for a single engine; LBad is a start URL
\* with a malformed host.
SeedChoices == {<<>>, <<L0>>, <<L0s>>, <<L0U, L0>>, <<L1q, L0>>, <<LBad>>}

\* Two engines running side by side over the cyclic web.
InitPipeline ==
    \E bs \in 1..MaxBatchSize :
        InitWith({"gigacomputer", "stolnipocitace"},
                 [s \in Sources |->
                     IF s = "stolnipocitace" THEN <<L1q>> ELSE <<L0>>],
                 bs, CyclicWeb)

\* One engine of any class, over every web and every seed list.  Datart
\* derives its next URL from the current one and reads no next link, so
\* for it one web stands for all.
InitEngine ==
    \E s \in Sources, seeds \in SeedChoices,
       web \in [LinkedPages -> ListingHrefs \cup {NoneVal}] :
        /\ s = "datart" => \A p \in LinkedPages : web[p] = NoneVal
        /\ InitWith({s}, [t \in Sources |-> seeds], MaxBatchSize,
                    [p \in ListingPages |->
                        IF p \in LinkedPages THEN web[p] ELSE NoneVal])

Init ==
    /\ InitPipeline \/ InitEngine
    /\ nu_url = NoneVal
    /\ nu_out = <<>>

\* ----------------------------------------------------------- listing phase
\* Every <a href> of a listing page: its product anchors and its next link.
Anchors(p) ==
    ProductLinks(p) \cup
        (IF p \notin DOMAIN nextHref \/ nextHref[p] = NoneVal THEN {}
         ELSE {nextHref[p]})

\* The product URLs an engine keeps from a loaded listing page:
\* normalize_url(urljoin(current, href)) of each anchor, filtered by
\* is_article_link.
CollectProducts(p) ==
    {u \in {normalize_url(h) : h \in Anchors(p)} : is_article_link(u)}

\* The URL an engine considers for its listing queue after loading page p:
\* Pocitarna normalizes the next link, the other engines take urljoin's
\* result as it is.
NextListingUrl(s, p) ==
    IF nextHref[p] = NoneVal THEN NoneVal
    ELSE IF s = "pocitarna" THEN normalize_url(nextHref[p])
    ELSE nextHref[p]

\* Whether the candidate is appended: not visited and, for Pocitarna, not
\* already queued.
Enqueues(s, next, visited, queue) ==
    /\ next # NoneVal
    /\ next \notin visited
    /\ s = "pocitarna" => \A i \in 1..Len(queue) : queue[i] # next

\* The page-loader calls one listing iteration makes for URL cur: Alza loads
\* the page in crawl and again in _collect_product_urls.
ListingFetches(s, cur) ==
    IF s = "alza" THEN <<cur, cur>> ELSE <<cur>>

\* A pop that hands out the first URL and leaves it in the list.
after_pop0_kept(queue) == queue

\* The list that listing_queue.pop(0) leaves behind.
after_pop0(queue) == Tail(queue)

\* crawl(), entry: no start URLs ends the run at once; otherwise the listing
\* queue is seeded with the normalized start URLs.
CrawlBegin(s) ==
    /\ epc[s] = "ready"
    /\ runs' = [runs EXCEPT ![s] = @ + 1]
    /\ IF start_urls[s] = <<>>
       THEN /\ epc' = [epc EXCEPT ![s] = "done"]
            /\ UNCHANGED <<listing_queue, enqueued>>
       ELSE /\ epc' = [epc EXCEPT ![s] =
                          IF s = "stolnipocitace" THEN "stolni_nav"
                          ELSE "listing"]
            /\ listing_queue' = [listing_queue EXCEPT ![s] =
                   IF s = "stolnipocitace" THEN <<>>
                   ELSE [i \in 1..Len(start_urls[s]) |->
                            normalize_url(start_urls[s][i])]]
            /\ enqueued' = [enqueued EXCEPT ![s] =
                   IF s = "stolnipocitace" THEN start_urls[s]
                   ELSE @ \o [i \in 1..Len(start_urls[s]) |->
                                 normalize_url(start_urls[s][i])]]
    /\ UNCHANGED <<cfgvars, normvars, probed, tries, mpc, sharedvars,
                   writervars,
                   visited_listings, product_urls, start_idx, current_url,
                   fetched, detailvars, ret, collected_data, flushed, driver,
                   obj, handed>>

\* One iteration of the phase-1 loop of the queue-driven engines (Alza,
\* Gigacomputer, Planeo, Pocitarna).  ok1 is the outcome of the page load in
\* crawl, ok2 that of Alza's second load in _collect_product_urls.
ListingStep(s) ==
    /\ s # "datart"
    /\ epc[s] = "listing"
    /\ listing_queue[s] # <<>>
    /\ LET cur == Head(listing_queue[s])
           rest == after_pop0(listing_queue[s])
           p == PageOf(cur)
       IN IF cur \in visited_listings[s]
          THEN /\ listing_queue' = [listing_queue EXCEPT ![s] = rest]
               /\ UNCHANGED <<visited_listings, product_urls, fetched,
                               enqueued>>
          ELSE \E ok1 \in BOOLEAN, ok2 \in BOOLEAN :
               LET visited == visited_listings[s] \cup {cur}
                   \* Alza gets the products from its second load; a failed
                   \* first load leaves soup None and the next link is read
                   \* from driver.page_source, the page of the second load.
                   gotProducts == IF s = "alza" THEN ok2 ELSE ok1
                   gotNext == IF s = "alza" THEN ok1 \/ ok2 ELSE ok1
                   next == IF gotNext THEN NextListingUrl(s, p) ELSE NoneVal
               IN /\ s # "alza" => ok2
                  /\ visited_listings' =
                         [visited_listings EXCEPT ![s] = visited]
                  /\ fetched' = [fetched EXCEPT ![s] =
                                    @ \o ListingFetches(s, cur)]
                  /\ product_urls' = [product_urls EXCEPT ![s] =
                         IF gotProducts THEN @ \cup CollectProducts(p) ELSE @]
                  /\ listing_queue' = [listing_queue EXCEPT ![s] =
                         IF Enqueues(s, next, visited, rest)
                         THEN Append(rest, next) ELSE rest]
                  /\ enqueued' = [enqueued EXCEPT ![s] =
                         IF Enqueues(s, next, visited, rest)
                         THEN Append(@, next) ELSE @]
    /\ UNCHANGED <<cfgvars, normvars, probed, tries, runs, mpc, sharedvars,
                   writervars, start_idx, current_url, detailvars,
                   enginevars>>

\* SeleniumBaseCrawler.get_next_page_url: the "page" parameter of the query
\* is read (1 when absent) and written back incremented by one; the URL is
\* rebuilt by urlunparse with every other component as it was.
NextPageQuery(q) ==
    CASE q = "" -> "page=2"
      [] q = "page=2" -> "page=3"
      [] q = "page=3" -> "page=4"
      [] OTHER -> "page=5"

get_next_page_url(u) == [u EXCEPT !.query = NextPageQuery(u.query)]

\* What Datart's probe, requests.get(next_url), can end in: an exception or
\* a status of 400 and above, a page without a div.product-box, a page with
\* one.
ProbeResults == {"error", "noitems", "items"}

\* A probe that lets every candidate pass.
ProbeAcceptsAny(result) == TRUE

\* The candidate is appended only when the probe got a page with items.
ProbeAccepts(result) == result = "items"

\* One iteration of Datart's phase-1 loop.  ok is the outcome of the page
\* load; the candidate next URL is computed and probed only when the page
\* gave at least one product URL not collected before and the candidate is
\* neither visited nor queued.
DatartListingStep(s) ==
    /\ s = "datart"
    /\ epc[s] = "listing"
    /\ listing_queue[s] # <<>>
    /\ LET cur == Head(listing_queue[s])
           rest == after_pop0(listing_queue[s])
           p == PageOf(cur)
       IN IF cur \in visited_listings[s]
          THEN /\ listing_queue' = [listing_queue EXCEPT ![s] = rest]
               /\ UNCHANGED <<visited_listings, product_urls, fetched,
                               enqueued, probed>>
          ELSE \E ok \in BOOLEAN, result \in ProbeResults :
               LET visited == visited_listings[s] \cup {cur}
                   found == IF ok THEN CollectProducts(p) \ product_urls[s]
                            ELSE {}
                   next_url == get_next_page_url(cur)
                   probing ==
                       /\ found # {}
                       /\ next_url \notin visited
                       /\ \A i \in 1..Len(rest) : rest[i] # next_url
                   accept == probing /\ ProbeAccepts(result)
               IN /\ ~probing => result = "error"
                  /\ visited_listings' =
                         [visited_listings EXCEPT ![s] = visited]
                  /\ fetched' = [fetched EXCEPT ![s] = Append(@, cur)]
                  /\ product_urls' =
                         [product_urls EXCEPT ![s] = @ \cup found]
                  /\ probed' = [probed EXCEPT ![s] =
                         IF probing THEN @ \cup {<<next_url, result>>}
                         ELSE @]
                  /\ listing_queue' = [listing_queue EXCEPT ![s] =
                         IF accept THEN Append(rest, next_url) ELSE rest]
                  /\ enqueued' = [enqueued EXCEPT ![s] =
                         IF accept THEN Append(@, next_url) ELSE @]
    /\ UNCHANGED <<cfgvars, normvars, tries, runs, mpc, sharedvars,
                   writervars, start_idx, current_url, detailvars,
                   enginevars>>

\* A phase-1 loop that can be left while URLs are still queued.
ListingEndEarly(s) ==
    /\ epc[s] = "listing"
    /\ epc' = [epc EXCEPT ![s] = "detail"]
    /\ todo' = [todo EXCEPT ![s] = product_urls[s]]
    /\ UNCHANGED <<cfgvars, normvars, histvars, mpc, sharedvars, writervars,
                   listingvars, visited_urls, extracted, ret, collected_data,
                   flushed, failed, driver, obj, handed>>

\* The phase-1 loop ends when the queue is empty; phase 2 iterates the
\* collected set.
ListingEnd(s) ==
    /\ epc[s] = "listing"
    /\ listing_queue[s] = <<>>
    /\ epc' = [epc EXCEPT ![s] = "detail"]
    /\ todo' = [todo EXCEPT ![s] = product_urls[s]]
    /\ UNCHANGED <<cfgvars, normvars, histvars, mpc, sharedvars, writervars,
                   listingvars, visited_urls, extracted, ret, collected_data,
                   flushed, failed, driver, obj, handed>>

\* StolniPocitace, the for loop over start_urls: driver.get(start_url)
\* outside any try, so a failed load ends the thread; after the last start
\* URL phase 2 begins.
StolniNavigate(s) ==
    /\ s = "stolnipocitace"
    /\ epc[s] = "stolni_nav"
    /\ IF start_idx[s] > Len(start_urls[s])
       THEN /\ epc' = [epc EXCEPT ![s] = "detail"]
            /\ todo' = [todo EXCEPT ![s] = product_urls[s]]
            /\ UNCHANGED <<current_url, fetched>>
       ELSE \E ok \in BOOLEAN :
            /\ fetched' = [fetched EXCEPT ![s] =
                              Append(@, start_urls[s][start_idx[s]])]
            /\ epc' = [epc EXCEPT ![s] =
                          IF ok THEN "stolni_page" ELSE "crashed"]
            /\ current_url' = [current_url EXCEPT ![s] =
                                  IF ok THEN start_urls[s][start_idx[s]]
                                  ELSE @]
            /\ UNCHANGED todo
    /\ UNCHANGED <<cfgvars, normvars, histvars, mpc, sharedvars, writervars,
                   listing_queue, visited_listings, product_urls, start_idx,
                   visited_urls, extracted, ret, collected_data, flushed,
                   failed, driver, obj, handed>>

\* A visited test that never finds the URL.
in_visited_never(url, visited) == FALSE

\* "if current_url in visited_listings: break"
in_visited(url, visited) == url \in visited

\* StolniPocitace, one iteration of the while True loop on the page the
\* browser shows: stop the category on a visited URL, a missing or a
\* disabled next button; otherwise click it, which loads the next page.
StolniPage(s) ==
    /\ s = "stolnipocitace"
    /\ epc[s] = "stolni_page"
    /\ LET cur == current_url[s]
           p == PageOf(cur)
           break == /\ start_idx' = [start_idx EXCEPT ![s] = @ + 1]
                    /\ epc' = [epc EXCEPT ![s] = "stolni_nav"]
                    /\ UNCHANGED <<current_url, fetched, enqueued>>
       IN IF in_visited(cur, visited_listings[s])
          THEN break /\ UNCHANGED <<visited_listings, product_urls>>
          ELSE /\ visited_listings' =
                      [visited_listings EXCEPT ![s] = @ \cup {cur}]
               /\ product_urls' =
                      [product_urls EXCEPT ![s] = @ \cup CollectProducts(p)]
               /\ IF nextHref[p] = NoneVal
                  THEN break
                  ELSE \E click \in {"disabled", "loaded", "raised"} :
                       IF click = "disabled"
                       THEN break
                       ELSE /\ fetched' = [fetched EXCEPT ![s] =
                                              Append(@, nextHref[p])]
                            /\ enqueued' = [enqueued EXCEPT ![s] =
                                               Append(@, nextHref[p])]
                            /\ current_url' = [current_url EXCEPT ![s] =
                                   IF click = "loaded" THEN nextHref[p] ELSE @]
                            /\ epc' = [epc EXCEPT ![s] =
                                   IF click = "loaded" THEN "stolni_page"
                                   ELSE "crashed"]
                            /\ UNCHANGED start_idx
    /\ UNCHANGED <<cfgvars, normvars, probed, tries, runs, mpc, sharedvars,
                   writervars, listing_queue, detailvars, ret, collected_data,
                   flushed, driver, obj, handed>>

\* ------------------------------------------------------------ detail phase
\* What loading and parsing a detail page can end in: the load fails, the
\* page has no recognizable field, or it has some.
Outcomes == {"error", "nofields", "fields"}

\* An extraction whose except branch hands back the record it had begun.
extract_keeps_failed(s, u, outcome) ==
    CASE outcome = "fields" -> [url |-> u, fields |-> "some"]
      [] outcome = "nofields" ->
            IF s \in {"alza", "datart"} THEN NoneVal
            ELSE [url |-> u, fields |-> "none"]
      [] OTHER -> [url |-> u, fields |-> "none"]

\* extract_data_from_page of engine s on detail URL u.  A failed load ends in
\* the except branch (None).  On a page without fields Alza returns None
\* ("if all(v is None ...)"); the other parsers return the dict they built,
\* every value None.
extract_data_from_page(s, u, outcome) ==
    CASE outcome = "error" -> NoneVal
      [] outcome = "nofields" ->
            IF s \in {"alza", "datart"} THEN NoneVal
            ELSE [url |-> u, fields |-> "none"]
      [] OTHER -> [url |-> u, fields |-> "some"]

\* "if data:" -- None is falsy, a dict with keys is truthy whatever its
\* values.
Truthy(data) == data # NoneVal

\* A threshold test that lets the batch grow one record past batch_size.
threshold_passed(batch, size) == Len(batch) > size

\* "if len(self.collected_data) >= self.batch_size"
threshold_reached(batch, size) == Len(batch) >= size

\* A visited set that takes a URL in only once its page has been loaded.
visited_add_loaded(visited, u, outcome) ==
    IF outcome = "error" THEN visited ELSE visited \cup {u}

\* "self.visited_urls.add(p_url)" stands before the call of
\* extract_data_from_page: the URL is in the set whatever the load ends in.
visited_add(visited, u, outcome) == visited \cup {u}

\* One iteration of the phase-2 loop: take a product URL of the set, skip it
\* if visited, else mark it, extract, append a truthy result and flush when
\* the batch has reached batch_size.
DetailStep(s) ==
    /\ epc[s] = "detail"
    /\ todo[s] # {}
    /\ \E u \in todo[s] :
       /\ todo' = [todo EXCEPT ![s] = @ \ {u}]
       /\ IF u \in visited_urls[s]
          THEN UNCHANGED <<visited_urls, extracted, failed, collected_data,
                           epc, ret, tries>>
          ELSE \E outcome \in Outcomes :
               LET data == extract_data_from_page(s, u, outcome)
                   batch == IF Truthy(data)
                            THEN Append(collected_data[s], data)
                            ELSE collected_data[s]
               IN /\ visited_urls' = [visited_urls EXCEPT ![s] =
                         visited_add(@, u, outcome)]
                  /\ tries' = [tries EXCEPT ![s] = @ + 1]
                  /\ extracted' = [extracted EXCEPT ![s] =
                         IF data # NoneVal THEN @ \cup {u} ELSE @]
                  /\ failed' = [failed EXCEPT ![s] =
                         IF outcome = "error" THEN @ \cup {u} ELSE @]
                  /\ collected_data' = [collected_data EXCEPT ![s] = batch]
                  /\ IF Truthy(data) /\ threshold_reached(batch, batch_size)
                     THEN /\ epc' = [epc EXCEPT ![s] = "flush_clear"]
                          /\ ret' = [ret EXCEPT ![s] = "detail"]
                     ELSE UNCHANGED <<epc, ret>>
    /\ UNCHANGED <<cfgvars, normvars, enqueued, probed, runs, mpc, sharedvars,
                   writervars, listingvars, flushed, driver, obj, handed>>

\* A crawl that ends without the flush of the remaining records.
DetailEndNoDrain(s) ==
    /\ epc[s] = "detail"
    /\ todo[s] = {}
    /\ epc' = [epc EXCEPT ![s] = "finish"]
    /\ UNCHANGED <<cfgvars, normvars, histvars, mpc, sharedvars, writervars,
                   listingvars, detailvars, ret, collected_data, flushed,
                   driver, obj, handed>>

\* A crawl that ends with a flush whether or not records remain.
DetailEndAlwaysFlush(s) ==
    /\ epc[s] = "detail"
    /\ todo[s] = {}
    /\ epc' = [epc EXCEPT ![s] = "flush_clear"]
    /\ ret' = [ret EXCEPT ![s] = "finish"]
    /\ UNCHANGED <<cfgvars, normvars, histvars, mpc, sharedvars, writervars,
                   listingvars, detailvars, collected_data, flushed, driver,
                   obj, handed>>

\* After the loop: "if self.collected_data: self._flush_data()".
DetailEnd(s) ==
    /\ epc[s] = "detail"
    /\ todo[s] = {}
    /\ IF collected_data[s] # <<>>
       THEN /\ epc' = [epc EXCEPT ![s] = "flush_clear"]
            /\ ret' = [ret EXCEPT ![s] = "finish"]
       ELSE /\ epc' = [epc EXCEPT ![s] = "finish"]
            /\ UNCHANGED ret
    /\ UNCHANGED <<cfgvars, normvars, histvars, mpc, sharedvars, writervars,
                   listingvars, detailvars, collected_data, flushed, driver,
                   obj, handed>>

\* The end of crawl(): quit_driver() and the thread ends.
Finish(s) ==
    /\ epc[s] = "finish"
    /\ driver' = [driver EXCEPT ![s] = "quit"]
    /\ epc' = [epc EXCEPT ![s] = "done"]
    /\ UNCHANGED <<cfgvars, normvars, histvars, mpc, sharedvars, writervars,
                   listingvars, detailvars, ret, collected_data, flushed, obj,
                   handed>>

\* ------------------------------------------------------------- _flush_data
\* An engine that puts its batch without clearing the event first.
FlushClearSkip(s) ==
    /\ epc[s] = "flush_clear"
    /\ epc' = [epc EXCEPT ![s] = "flush_put"]
    /\ UNCHANGED <<cfgvars, normvars, histvars, mpc, sharedvars, writervars,
                   listingvars, detailvars, ret, collected_data, flushed,
                   driver, obj, handed>>

\* self.write_done_event.clear()
FlushClear(s) ==
    /\ epc[s] = "flush_clear"
    /\ write_done_events' = [write_done_events EXCEPT ![s] = FALSE]
    /\ epc' = [epc EXCEPT ![s] = "flush_put"]
    /\ UNCHANGED <<cfgvars, normvars, histvars, mpc, data_queue, writervars,
                   listingvars, detailvars, ret, collected_data, flushed,
                   driver, obj, handed>>

\* self.data_queue.put((self.name, self.collected_data))
FlushPut(s) ==
    /\ epc[s] = "flush_put"
    /\ data_queue' = Append(data_queue, <<name[s], collected_data[s]>>)
    /\ flushed' = [flushed EXCEPT ![s] = Append(@, collected_data[s])]
    /\ handed' = [handed EXCEPT ![s] = @ \cup {obj[s]}]
    /\ epc' = [epc EXCEPT ![s] = "flush_wait"]
    /\ UNCHANGED <<cfgvars, normvars, histvars, mpc, write_done_events,
                   writervars, listingvars, detailvars, ret, collected_data,
                   driver, obj>>

\* An engine that does not wait for the acknowledgment.
FlushWaitNoBlock(s) ==
    /\ epc[s] = "flush_wait"
    /\ epc' = [epc EXCEPT ![s] = "flush_reset"]
    /\ UNCHANGED <<cfgvars, normvars, histvars, mpc, sharedvars, writervars,
                   listingvars, detailvars, ret, collected_data, flushed,
                   driver, obj, handed>>

\* self.write_done_event.wait(): returns once the event is set.
FlushWait(s) ==
    /\ epc[s] = "flush_wait"
    /\ write_done_events[s]
    /\ epc' = [epc EXCEPT ![s] = "flush_reset"]
    /\ UNCHANGED <<cfgvars, normvars, histvars, mpc, sharedvars, writervars,
                   listingvars, detailvars, ret, collected_data, flushed,
                   driver, obj, handed>>

\* An engine that keeps its local batch after the hand-off.
FlushResetKeep(s) ==
    /\ epc[s] = "flush_reset"
    /\ epc' = [epc EXCEPT ![s] = ret[s]]
    /\ ret' = [ret EXCEPT ![s] = "none"]
    /\ UNCHANGED <<cfgvars, normvars, histvars, mpc, sharedvars, writervars,
                   listingvars, detailvars, collected_data, flushed, driver,
                   obj, handed>>

\* An engine that empties its list in place (self.collected_data.clear()).
FlushResetInPlace(s) ==
    /\ epc[s] = "flush_reset"
    /\ collected_data' = [collected_data EXCEPT ![s] = <<>>]
    /\ epc' = [epc EXCEPT ![s] = ret[s]]
    /\ ret' = [ret EXCEPT ![s] = "none"]
    /\ UNCHANGED <<cfgvars, normvars, histvars, mpc, sharedvars, writervars,
                   listingvars, detailvars, flushed, driver, obj, handed>>

\* self.collected_data = [], a new list object, and the return to the
\* caller.
FlushReset(s) ==
    /\ epc[s] = "flush_reset"
    /\ collected_data' = [collected_data EXCEPT ![s] = <<>>]
    /\ obj' = [obj EXCEPT ![s] = @ + 1]
    /\ epc' = [epc EXCEPT ![s] = ret[s]]
    /\ ret' = [ret EXCEPT ![s] = "none"]
    /\ UNCHANGED <<cfgvars, normvars, histvars, mpc, sharedvars, writervars,
                   listingvars, detailvars, flushed, driver, handed>>

\* ------------------------------------------------------------ writer_thread
\* A writer that keeps only the batch it has just received.
extend_overwrite(list, data) == data

\* list.extend(data)
extend(list, data) == list \o data

\* A writer that rewrites the file of every source when it is told to stop.
WriterGetDumpOnStop ==
    /\ wpc = "get"
    /\ data_queue # <<>>
    /\ LET item == Head(data_queue)
       IN /\ data_queue' = Tail(data_queue)
          /\ IF item[1] = "STOP"
             THEN /\ wpc' = "stopped"
                  /\ file' = [s \in Sources |->
                                 [exists |-> TRUE, complete |-> TRUE,
                                  data |-> all_data[s]]]
                  /\ UNCHANGED <<wcur, all_data>>
             ELSE /\ wpc' = "open"
                  /\ wcur' = item
                  /\ all_data' = [all_data EXCEPT ![item[1]] =
                                      extend(@, item[2])]
                  /\ UNCHANGED file
    /\ UNCHANGED <<cfgvars, normvars, histvars, mpc, write_done_events,
                   written, listingvars, detailvars, enginevars>>

\* source_name, data = data_queue.get(); "STOP" ends the loop, anything else
\* is appended to all_data[source_name].
WriterGet ==
    /\ wpc = "get"
    /\ data_queue # <<>>
    /\ LET item == Head(data_queue)
       IN /\ data_queue' = Tail(data_queue)
          /\ IF item[1] = "STOP"
             THEN /\ wpc' = "stopped"
                  /\ UNCHANGED <<wcur, all_data>>
             ELSE /\ wpc' = "open"
                  /\ wcur' = item
                  /\ all_data' = [all_data EXCEPT ![item[1]] =
                                      extend(@, item[2])]
    /\ UNCHANGED <<cfgvars, normvars, histvars, mpc, write_done_events, file,
                   written, listingvars, detailvars, enginevars>>

\* open(filename, "w"): the file is created or truncated in place; an
\* OSError ends the writer thread.
WriterOpen ==
    /\ wpc = "open"
    /\ \E ok \in BOOLEAN :
       IF ok
       THEN /\ file' = [file EXCEPT ![wcur[1]] =
                           [exists |-> TRUE, complete |-> FALSE, data |-> <<>>]]
            /\ wpc' = "dump"
       ELSE /\ wpc' = "failed"
            /\ UNCHANGED file
    /\ UNCHANGED <<cfgvars, normvars, histvars, mpc, sharedvars, wcur,
                   all_data, written, listingvars, detailvars, enginevars>>

\* A writer that swallows a failed dump and acknowledges all the same.
WriterDumpSwallow ==
    /\ wpc = "dump"
    /\ LET src == wcur[1]
           all == all_data[src]
       IN \E n \in 0..Len(all) :
          /\ file' = [file EXCEPT ![src] =
                         [exists |-> TRUE, complete |-> n = Len(all),
                          data |-> SubSeq(all, 1, n)]]
          /\ wpc' = "set"
          /\ written' = [written EXCEPT ![src] =
                            IF n = Len(all) THEN @ + 1 ELSE @]
    /\ UNCHANGED <<cfgvars, normvars, histvars, mpc, sharedvars, wcur,
                   all_data, listingvars, detailvars, enginevars>>

\* json.dump(all_data[source_name], f) and the end of the with block: the
\* whole accumulated list is written (n = its length), or the write fails
\* after n records and the exception ends the writer thread.
WriterDump ==
    /\ wpc = "dump"
    /\ LET src == wcur[1]
           all == all_data[src]
       IN \E n \in 0..Len(all) :
          /\ file' = [file EXCEPT ![src] =
                         [exists |-> TRUE, complete |-> n = Len(all),
                          data |-> SubSeq(all, 1, n)]]
          /\ wpc' = IF n = Len(all) THEN "set" ELSE "failed"
          /\ written' = [written EXCEPT ![src] =
                            IF n = Len(all) THEN @ + 1 ELSE @]
    /\ UNCHANGED <<cfgvars, normvars, histvars, mpc, sharedvars, wcur,
                   all_data, listingvars, detailvars, enginevars>>

\* A writer that goes back to the top of the loop without set().
WriterSetSkip ==
    /\ wpc = "set"
    /\ wpc' = "get"
    /\ wcur' = NoneVal
    /\ UNCHANGED <<cfgvars, normvars, histvars, mpc, sharedvars, all_data,
                   file, written, listingvars, detailvars, enginevars>>

\* A writer whose acknowledgment sets the event of every source.
WriterSetAll ==
    /\ wpc = "set"
    /\ write_done_events' = [s \in Sources |-> TRUE]
    /\ wpc' = "get"
    /\ wcur' = NoneVal
    /\ UNCHANGED <<cfgvars, normvars, histvars, mpc, data_queue, all_data,
                   file, written, listingvars, detailvars, enginevars>>

\* write_done_events[source_name].set(), and back to the top of the loop.
WriterSet ==
    /\ wpc = "set"
    /\ write_done_events' = [write_done_events EXCEPT ![wcur[1]] = TRUE]
    /\ wpc' = "get"
    /\ wcur' = NoneVal
    /\ UNCHANGED <<cfgvars, normvars, histvars, mpc, data_queue, all_data,
                   file, written, listingvars, detailvars, enginevars>>

\* ------------------------------------------------------------------ main()
\* writer_t.start()
MainStartWriter ==
    /\ mpc = "start_writer"
    /\ wpc' = "get"
    /\ mpc' = "engines"
    /\ UNCHANGED <<cfgvars, normvars, histvars, sharedvars, wcur, all_data,
                   file, written, listingvars, detailvars, enginevars>>

\* An engine is constructed and its thread started.  The constructor
\* normalizes the start URLs (BaseCrawler.__init__) and then creates the
\* browser session (SeleniumBaseCrawler.__init__); either can raise, and the
\* exception leaves main() through no handler.
MainStartEngine(s) ==
    /\ mpc = "engines"
    /\ s \in enabled
    /\ epc[s] = "unborn"
    /\ \E created \in BOOLEAN :
       IF /\ \A i \in 1..Len(start_urls[s]) :
                normalize_url(start_urls[s][i]) # ValueError
          /\ created
       THEN /\ epc' = [epc EXCEPT ![s] = "ready"]
            /\ driver' = [driver EXCEPT ![s] = "open"]
            /\ UNCHANGED mpc
       ELSE /\ mpc' = "crashed"
            /\ UNCHANGED <<epc, driver>>
    /\ UNCHANGED <<cfgvars, normvars, histvars, sharedvars, writervars,
                   listingvars, detailvars, ret, collected_data, flushed, obj,
                   handed>>

\* A main() that sends the sentinel without joining the engine threads.
MainStopEarly ==
    /\ mpc = "engines"
    /\ data_queue' = Append(data_queue, <<"STOP", NoneVal>>)
    /\ mpc' = "join_writer"
    /\ UNCHANGED <<cfgvars, normvars, histvars, write_done_events, writervars,
                   listingvars, detailvars, enginevars>>

\* Every engine thread has been joined: data_queue.put(("STOP", None)).
MainStop ==
    /\ mpc = "engines"
    /\ \A s \in enabled : epc[s] \in {"done", "crashed"}
    /\ data_queue' = Append(data_queue, <<"STOP", NoneVal>>)
    /\ mpc' = "join_writer"
    /\ UNCHANGED <<cfgvars, normvars, histvars, write_done_events, writervars,
                   listingvars, detailvars, enginevars>>

\* writer_t.join() returns when the writer thread has ended.
MainJoinWriter ==
    /\ mpc = "join_writer"
    /\ wpc \in {"stopped", "failed"}
    /\ mpc' = "done"
    /\ UNCHANGED <<cfgvars, normvars, histvars, sharedvars, writervars,
                   listingvars, detailvars, enginevars>>

\* KeyboardInterrupt, the one way to stop a run: it is raised in the main
\* thread, which waits in a join(), and leaves main() through no handler.
Interrupt ==
    /\ mpc \in {"engines", "join_writer"}
    /\ mpc' = "interrupted"
    /\ UNCHANGED <<cfgvars, normvars, histvars, sharedvars, writervars,
                   listingvars, detailvars, enginevars>>

\* The writer and every engine run in daemon threads (daemon=True): they
\* run only as long as the main thread has not ended by an exception.
ProcessAlive == mpc \notin {"crashed", "interrupted"}

\* ----------------------------------------------------------- specification
Engine(s) ==
    /\ ProcessAlive
    /\ \/ CrawlBegin(s)
       \/ ListingStep(s)
       \/ DatartListingStep(s)
       \/ ListingEnd(s)
       \/ StolniNavigate(s)
       \/ StolniPage(s)
       \/ DetailStep(s)
       \/ DetailEnd(s)
       \/ Finish(s)
       \/ FlushClear(s)
       \/ FlushPut(s)
       \/ FlushWait(s)
       \/ FlushReset(s)

Writer ==
    /\ ProcessAlive
    /\ WriterGet \/ WriterOpen \/ WriterDump \/ WriterSet

Main ==
    \/ MainStartWriter
    \/ \E s \in Sources : MainStartEngine(s)
    \/ MainStop
    \/ MainJoinWriter
    \/ Interrupt

Next == Main \/ Writer \/ \E s \in Sources : Engine(s)

Spec == Init /\ [][Next]_vars

\* ------------------------------------------- crawl() called more than once
\* A second call that starts with an empty visited-detail set, as if the
\* set were a local of crawl() like product_urls.
CrawlAgainForget(s) ==
    /\ mpc = "engines"
    /\ epc[s] = "done"
    /\ runs[s] >= 1
    /\ runs[s] < MaxRuns
    /\ epc' = [epc EXCEPT ![s] = "ready"]
    /\ visited_listings' = [visited_listings EXCEPT ![s] = {}]
    /\ product_urls' = [product_urls EXCEPT ![s] = {}]
    /\ start_idx' = [start_idx EXCEPT ![s] = 1]
    /\ current_url' = [current_url EXCEPT ![s] = NoneVal]
    /\ todo' = [todo EXCEPT ![s] = {}]
    /\ visited_urls' = [visited_urls EXCEPT ![s] = {}]
    /\ UNCHANGED <<cfgvars, normvars, histvars, mpc, sharedvars, writervars,
                   listing_queue, fetched, extracted, failed, ret,
                   collected_data, flushed, driver, obj, handed>>

\* crawl() has returned and is called again on the same engine object: the
\* locals of crawl() (listing_queue, visited_listings, product_urls) start
\* afresh, the attributes set in __init__ (visited_urls, collected_data)
\* are the ones the first call left.
CrawlAgain(s) ==
    /\ mpc = "engines"
    /\ epc[s] = "done"
    /\ runs[s] >= 1
    /\ runs[s] < MaxRuns
    /\ epc' = [epc EXCEPT ![s] = "ready"]
    /\ visited_listings' = [visited_listings EXCEPT ![s] = {}]
    /\ product_urls' = [product_urls EXCEPT ![s] = {}]
    /\ start_idx' = [start_idx EXCEPT ![s] = 1]
    /\ current_url' = [current_url EXCEPT ![s] = NoneVal]
    /\ todo' = [todo EXCEPT ![s] = {}]
    /\ UNCHANGED <<cfgvars, normvars, histvars, mpc, sharedvars, writervars,
                   listing_queue, fetched, visited_urls, extracted, failed,
                   ret, collected_data, flushed, driver, obj, handed>>

\* One engine whose crawl() may be called again, over the cyclic web.
InitRerun ==
    /\ \E s \in {"alza", "datart", "stolnipocitace"},
          bs \in 1..MaxBatchSize :
           InitWith({s}, [t \in Sources |-> <<L0>>], bs, CyclicWeb)
    /\ nu_url = NoneVal
    /\ nu_out = <<>>

NextRerun ==
    \/ Next
    \/ \E s \in Sources : ProcessAlive /\ CrawlAgain(s)

SpecRerun == InitRerun /\ [][NextRerun]_vars

\* ------------------------------------------------------- fair scheduling
\* Two engines side by side that flush every record on its own, or the
\* Datart engine alone with any flush threshold.
InitLive ==
    /\ \/ InitWith({"gigacomputer", "stolnipocitace"},
                   [s \in Sources |->
                       IF s = "stolnipocitace" THEN <<L1q>> ELSE <<L0>>],
                   1, CyclicWeb)
       \/ \E bs \in 1..MaxBatchSize :
             InitWith({"datart"}, [t \in Sources |-> <<L1q, L0>>], bs,
                      CyclicWeb)
    /\ nu_url = NoneVal
    /\ nu_out = <<>>

\* A thread that can take a step eventually takes one: the writer thread
\* and each engine thread.
Fairness ==
    /\ WF_vars(Writer)
    /\ \A s \in Sources : WF_vars(Engine(s))

SpecLive == InitLive /\ [][Next]_vars /\ Fairness

\* The steps main() takes by itself: starting the threads, sending the
\* sentinel once the engine threads are joined, returning once the writer
\* thread is joined.
MainRuns ==
    \/ MainStartWriter
    \/ \E s \in Sources : MainStartEngine(s)
    \/ MainStop
    \/ MainJoinWriter

\* Every thread of the process is scheduled fairly, the main thread
\* included; nothing obliges a KeyboardInterrupt to come.
SpecRun == InitLive /\ [][Next]_vars /\ Fairness /\ WF_vars(MainRuns)

\* ------------------------------------------------ engines under any name
\* The names an engine may be constructed with: the key of its event, or
\* the text the writer compares source_name with.
EngineNames(s) == {s, "STOP"}

\* One engine, constructed with either name, over the cyclic web.
InitAnyName ==
    /\ \E s \in {"gigacomputer", "datart", "stolnipocitace"} :
         \E nm \in EngineNames(s), bs \in 1..MaxBatchSize :
           InitNamed({s}, [t \in Sources |-> <<L0>>], bs, CyclicWeb,
                     [t \in Sources |-> IF t = s THEN nm ELSE t])
    /\ nu_url = NoneVal
    /\ nu_out = <<>>

SpecAnyName == InitAnyName /\ [][Next]_vars

\* ------------------------------------- seeds that differ in query or fragment
\* Start URL lists that spell one listing twice, the spellings differing in
\* the query or in the fragment only.
QuerySeedChoices == {<<L1x, L1>>, <<L1, L1f>>}

\* The next links of the webs these engines crawl.
QueryHrefs == {L0, L1q, NoneVal}

\* One engine of any class over such a start URL list.
InitQuery ==
    /\ \E s \in Sources, seeds \in QuerySeedChoices,
          web \in [LinkedPages -> QueryHrefs] :
           /\ s = "datart" => \A p \in LinkedPages : web[p] = NoneVal
           /\ InitWith({s}, [t \in Sources |-> seeds], MaxBatchSize,
                       [p \in ListingPages \cup {PageOf(L1x)} |->
                           IF p \in LinkedPages THEN web[p] ELSE NoneVal])
    /\ nu_url = NoneVal
    /\ nu_out = <<>>

SpecQuery == InitQuery /\ [][Next]_vars

\* ------------------------------------------------- normalize_url on its own
\* The path texts normalize_url is tried on: empty, or "/" followed by up to
\* MaxPathLen - 1 further tokens.
PathTokens == {"/", "a", ";"}

PathInputs ==
    {<<>>} \cup
    {<<"/">> \o q : q \in UNION {[1..n -> PathTokens] :
                                    n \in 0..(MaxPathLen - 1)}}

\* The URL strings normalize_url is tried on.
UrlInputs ==
    {MkUrl(scheme, netloc, path, query) :
        scheme \in {"http", "HTTP"}, netloc \in {"h", "H", "[::1"},
        path \in PathInputs, query \in {"", "page=2"}}

\* No engine is configured; a URL string is chosen.
InitNormalize ==
    /\ InitWith({}, [s \in Sources |-> <<>>], MaxBatchSize,
                [p \in ListingPages |-> NoneVal])
    /\ nu_url \in UrlInputs
    /\ nu_out = <<>>

\* normalize_url(url)
NormalizeOnce ==
    /\ nu_out = <<>>
    /\ nu_out' = <<normalize_url(nu_url)>>
    /\ UNCHANGED <<cfgvars, nu_url, histvars, mpc, sharedvars, writervars,
                   listingvars, detailvars, enginevars>>

\* normalize_url applied to the string a first call returned.
NormalizeAgain ==
    /\ Len(nu_out) = 1
    /\ nu_out[1] # ValueError
    /\ nu_out' = Append(nu_out, normalize_url(nu_out[1]))
    /\ UNCHANGED <<cfgvars, nu_url, histvars, mpc, sharedvars, writervars,
                   listingvars, detailvars, enginevars>>

NextNormalize == NormalizeOnce \/ NormalizeAgain

SpecNormalize == InitNormalize /\ [][NextNormalize]_vars

\* ------------------------------------------------------------------ claims
RECURSIVE Concat(_)
Concat(batches) ==
    IF batches = <<>> THEN <<>> ELSE Head(batches) \o Concat(Tail(batches))

\* The batches of source s the writer has not acknowledged: those on the
\* queue and the one the writer holds between get() and set().
InFlight(s) ==
    Cardinality({i \in 1..Len(data_queue) : data_queue[i][1] = s})
    + (IF wpc \in {"open", "dump", "set", "failed"} /\ wcur # NoneVal
          /\ wcur[1] = s
       THEN 1 ELSE 0)

IsSuffix(t, seq) ==
    /\ Len(t) <= Len(seq)
    /\ SubSeq(seq, Len(seq) - Len(t) + 1, Len(seq)) = t

\* The run is over without a persistence failure: every engine is Done, the
\* writer has stopped on the sentinel and main has joined it.
RunComplete ==
    /\ mpc = "done"
    /\ wpc = "stopped"
    /\ \A s \in enabled : epc[s] = "done"

\* C1: per source there is never more than one handed-off batch that the
\* writer has not acknowledged, and an engine entering _flush_data has none
\* outstanding.
C1_AtMostOneInFlight ==
    \A s \in Sources :
        /\ InFlight(s) <= 1
        /\ epc[s] \in {"flush_clear", "flush_put"} => InFlight(s) = 0

\* C1 witness: an engine has flushed for the second time and that batch is
\* still unacknowledged.
C1_Witness ==
    \E s \in Sources : Len(flushed[s]) = 2 /\ InFlight(s) = 1

\* C2: a completely written file of a source holds the concatenation, in
\* flush order, of the batches written so far, and when the writer has
\* processed a batch these are all the batches the engine has flushed.
C2_SnapshotCompleteness ==
    \A s \in Sources :
        /\ file[s].complete =>
              file[s].data = Concat(SubSeq(flushed[s], 1, written[s]))
        /\ (wpc = "set" /\ wcur[1] = s) =>
              /\ file[s].complete
              /\ written[s] = Len(flushed[s])

\* C2 witness: the writer has processed the second batch of a source.
C2_Witness ==
    \E s \in Sources :
        /\ wpc = "set" /\ wcur[1] = s
        /\ written[s] = 2
        /\ Len(file[s].data) = 2

\* C3: when the run completes without a persistence failure, the persisted
\* result set of each source holds exactly one record for every detail URL
\* whose extraction returned a record, and nothing else.
C3_NoItemLostOrDuplicated ==
    RunComplete =>
        \A s \in enabled :
            LET d == file[s].data
            IN /\ \A i, j \in 1..Len(d) : d[i].url = d[j].url => i = j
               /\ {d[i].url : i \in 1..Len(d)} = extracted[s]

\* C3 witness: a completed run of Gigacomputer over the cyclic listing, every
\* listing spelling loaded, both products persisted.
C3_Witness ==
    /\ RunComplete
    /\ "gigacomputer" \in enabled
    /\ fetched["gigacomputer"] = <<L0, L1, L0s>>
    /\ extracted["gigacomputer"] = {D1, D2}
    /\ Len(flushed["gigacomputer"]) = 2

\* C4: the writer sets the event of a source only when the file holds the
\* whole accumulated result set, and when _flush_data's wait has returned the
\* file already holds the batch just flushed.
C4_PersistBeforeAcknowledge ==
    /\ wpc = "set" =>
          /\ file[wcur[1]].complete
          /\ file[wcur[1]].data = all_data[wcur[1]]
          /\ IsSuffix(wcur[2], file[wcur[1]].data)
    /\ \A s \in Sources :
          epc[s] = "flush_reset" =>
              /\ file[s].complete
              /\ IsSuffix(collected_data[s], file[s].data)

\* C4 witness: the second _flush_data of an engine is about to return.
C4_Witness ==
    \E s \in Sources : epc[s] = "flush_reset" /\ Len(flushed[s]) = 2

\* C5: in every reachable state the file of a source, if it exists, is a
\* complete snapshot, never an empty or partially written document.
C5_AtomicSnapshot ==
    \A s \in Sources : file[s].exists => file[s].complete

\* C6: after a persistence failure no engine is left blocked in
\* _flush_data on an event that nobody will set.
C6_PersistenceFailureFatal ==
    wpc = "failed" =>
        \A s \in Sources :
            ~(epc[s] = "flush_wait" /\ ~write_done_events[s])

\* C7: each distinct normalized listing URL is handed to the page loader at
\* most once during an engine run.
C7_NoDuplicateVisits ==
    \A s \in Sources :
        \A i, j \in 1..Len(fetched[s]) :
            normalize_url(fetched[s][i]) = normalize_url(fetched[s][j])
                => i = j

\* The pagination L0 -> L1 -> L0 as engine s meets it: L0 is its one start
\* URL, L0's next link is L1 and L1's next link is L0 again, spelled as
\* configured.
CyclicPagination(s) ==
    /\ Len(start_urls[s]) = 1
    /\ nextHref[PageOf(start_urls[s][1])] = L1
    /\ nextHref[PageOf(L1)] = start_urls[s][1]

\* C8: over the pagination L0 -> L1 -> L0 the listing phase of the
\* queue-driven engines loads L0 and L1 once each and no page a second time.
C8_CyclicPaginationVisitsOnce ==
    \A s \in {"gigacomputer", "pocitarna"} :
        (s \in enabled /\ CyclicPagination(s)) =>
            \A i, j \in 1..Len(fetched[s]) :
                PageOf(fetched[s][i]) = PageOf(fetched[s][j]) => i = j

\* C9: every URL in the listing queue or the visited-listing set is in
\* normalized form, so no two of them normalize to the same value.
C9_CanonicalFrontier ==
    \A s \in Sources :
        \A u \in visited_listings[s]
                 \cup {listing_queue[s][i] : i \in 1..Len(listing_queue[s])} :
            normalize_url(u) = u

\* C10: no record whose fields are all empty is in a batch or in a
\* persisted result set.
C10_EmptyRecordSuppression ==
    \A s \in Sources :
        /\ \A i \in 1..Len(collected_data[s]) :
              collected_data[s][i].fields # "none"
        /\ \A i \in 1..Len(file[s].data) : file[s].data[i].fields # "none"

\* The engine has left the detail loop: a flush it makes now is the
\* Draining flush.
Draining(s) == ret[s] = "finish" \/ epc[s] \in {"finish", "done"}

\* C11: with threshold N = batch_size and k records extracted so far, the
\* flushes of the detail phase hold exactly N records each and there are
\* k \div N of them; the Draining flush holds the k % N remaining records
\* and happens iff k % N > 0, so a finished crawl has made
\* k \div N flushes of N records followed by at most that one.
C11_ThresholdFlushing ==
    \A s \in Sources :
        LET N == batch_size
            k == Cardinality(extracted[s])
            f == flushed[s]
        IN /\ \A i \in 1..Len(f) :
                 \/ i <= k \div N /\ Len(f[i]) = N
                 \/ /\ i = (k \div N) + 1
                    /\ Draining(s)
                    /\ k % N > 0
                    /\ Len(f[i]) = k % N
           /\ epc[s] = "detail" =>
                 /\ Len(f) = k \div N
                 /\ Len(collected_data[s]) = k % N
           /\ (epc[s] = "done" /\ start_urls[s] # <<>>) =>
                 Len(f) = (k \div N) + (IF k % N > 0 THEN 1 ELSE 0)

\* C11 witness: threshold 2 and three records: a finished crawl with two
\* flushes, of 2 records and then of 1.
C11_Witness ==
    \E s \in Sources :
        /\ epc[s] = "done"
        /\ batch_size = 2
        /\ Cardinality(extracted[s]) = 3
        /\ Len(flushed[s]) = 2
        /\ Len(flushed[s][1]) = 2
        /\ Len(flushed[s][2]) = 1

\* The records of detail URL u that engine s holds, has flushed or that are
\* in its file.
RecordsOf(s, u) ==
    {r \in {collected_data[s][i] : i \in 1..Len(collected_data[s])}
           \cup {file[s].data[i] : i \in 1..Len(file[s].data)}
           \cup {Concat(flushed[s])[i] : i \in 1..Len(Concat(flushed[s]))} :
        r.url = u}

\* C12: a detail URL whose load or extraction fails is skipped and nothing
\* else: the step leaves the local batch as it was, the engine stays in the
\* detail loop with the other URLs still to do, and no record of that URL is
\* ever batched, flushed or persisted.
C12_DetailFailureIsolation ==
    /\ [](\A s \in Sources : \A u \in failed[s] : RecordsOf(s, u) = {})
    /\ [][\A s \in Sources :
            failed'[s] # failed[s] =>
                /\ collected_data'[s] = collected_data[s]
                /\ epc'[s] = "detail"
                /\ todo'[s] = todo[s] \ failed'[s]]_vars

\* C12 witness: the load fails for D1 and succeeds for D2; the crawl is
\* finished and the file holds D2's record only.
C12_Witness ==
    \E s \in Sources :
        /\ epc[s] = "done"
        /\ failed[s] = {D1}
        /\ file[s].complete
        /\ file[s].data = <<[url |-> D2, fields |-> "some"]>>

\* C13: no page-loader failure on a listing URL ends an engine's crawl: the
\* thread never ends by an exception.
C13_ListingFailureIsolation ==
    \A s \in Sources : epc[s] # "crashed"

\* C14: normalizing a normalized URL changes nothing:
\* normalize_url(normalize_url(u)) = normalize_url(u).
C14_IdempotentNormalization ==
    Len(nu_out) = 2 => nu_out[2] = nu_out[1]

\* C15: normalize_url raises for no input string.
C15_NormalizerNeverRaises ==
    \A i \in 1..Len(nu_out) : nu_out[i] # ValueError

\* C16: the sentinel is the last item ever put on the queue and it is put
\* when every engine thread has ended; when the writer stops on it, every
\* batch any engine flushed has been written to its file.
C16_ShutdownOrdering ==
    /\ \A i \in 1..Len(data_queue) :
          data_queue[i][1] = "STOP" =>
              /\ i = Len(data_queue)
              /\ \A s \in enabled : epc[s] \in {"done", "crashed"}
    /\ wpc = "stopped" =>
          /\ data_queue = <<>>
          /\ \A s \in Sources :
                /\ written[s] = Len(flushed[s])
                /\ file[s].data = Concat(flushed[s])
                /\ flushed[s] # <<>> => file[s].complete

\* C16 witness: two engines have run and flushed, and the writer has stopped
\* on the sentinel.
C16_Witness ==
    /\ wpc = "stopped"
    /\ Cardinality(enabled) = 2
    /\ \A s \in enabled : epc[s] = "done" /\ flushed[s] # <<>>

\* C17: an engine whose crawl has ended, on whatever path, no longer holds
\* an open browser session.
C17_DoneReleasesResources ==
    \A s \in Sources : epc[s] \in {"done", "crashed"} => driver[s] # "open"

\* C18: when a run has been stopped, every record an engine had in its
\* local batch is in the file of its source.
C18_CooperativeCancellation ==
    mpc = "interrupted" =>
        \A s \in Sources :
            \A i \in 1..Len(collected_data[s]) :
                \E j \in 1..Len(file[s].data) :
                    /\ file[s].complete
                    /\ file[s].data[j] = collected_data[s][i]

\* C19: when the construction of one engine has failed, the run still ends
\* with every other enabled engine Done and the writer stopped by the
\* sentinel.  (A run in which main() has ended by the exception makes no
\* further step.)
C19_ConstructionFailureIsolation ==
    mpc = "crashed" =>
        /\ Cardinality({s \in enabled : epc[s] # "done"}) <= 1
        /\ wpc = "stopped"

\* C20: the accumulated result set and the file of a source change in
\* writer steps only; _flush_data returns with an empty batch in a list
\* object that was never handed off; and a record the engine appends
\* changes neither what the writer has accumulated nor the file.
C20_ExclusiveOwnership ==
    /\ [](\A s \in Sources :
            epc[s] \in {"detail", "finish", "done"} =>
                obj[s] \notin handed[s])
    /\ [][\A s \in Sources :
            /\ all_data'[s] # all_data[s] => wpc = "get"
            /\ file'[s] # file[s] => wpc \in {"open", "dump"}
            /\ (epc[s] = "flush_reset" /\ epc'[s] # "flush_reset") =>
                   collected_data'[s] = <<>>
            /\ collected_data'[s] # collected_data[s] =>
                   /\ all_data'[s] = all_data[s]
                   /\ file'[s] = file[s]]_vars

\* C20 witness: after its first flush an engine has appended a record to
\* its new list; the writer's result set is still the batch it was given.
C20_Witness ==
    \E s \in Sources :
        /\ epc[s] = "detail"
        /\ Len(flushed[s]) = 1
        /\ obj[s] = 1
        /\ Len(collected_data[s]) = 1
        /\ all_data[s] = flushed[s][1]
        /\ file[s].data = flushed[s][1]

\* C22: whenever a batch of source s is on the queue or in the writer's
\* hands (between get() and set(), or left there by a failed write), the
\* event of s is clear; and an engine about to clear its event has no batch
\* outstanding whose set() the clear could undo.
C22_GateProtocol ==
    \A s \in Sources :
        /\ InFlight(s) > 0 => ~write_done_events[s]
        /\ epc[s] = "flush_clear" =>
               (write_done_events[s] /\ InFlight(s) = 0)

\* C22 witness: the writer is dumping the batch of an engine that waits,
\* the engine's event clear, while the other engine's event is set.
C22_Witness ==
    \E s \in Sources, t \in Sources :
        /\ wpc = "dump"
        /\ wcur[1] = s
        /\ epc[s] = "flush_wait"
        /\ ~write_done_events[s]
        /\ t # s
        /\ epc[t] = "detail"
        /\ write_done_events[t]

\* C26: the step in which the writer takes the sentinel off the queue ends
\* its loop and leaves every event, every accumulated result set and every
\* file as it was; and from then on no step changes a file or a result set.
C26_SentinelHandling ==
    [][/\ (wpc = "get" /\ wpc' = "stopped") =>
              /\ Head(data_queue)[1] = "STOP"
              /\ write_done_events' = write_done_events
              /\ all_data' = all_data
              /\ file' = file
       /\ wpc = "stopped" =>
              /\ wpc' = "stopped"
              /\ all_data' = all_data
              /\ file' = file
              /\ write_done_events' = write_done_events]_vars

\* C26 witness: the writer has stopped on the sentinel after it had written
\* a file, and main has joined it.
C26_Witness ==
    /\ wpc = "stopped"
    /\ mpc = "done"
    /\ data_queue = <<>>
    /\ \E s \in Sources :
          /\ file[s].exists
          /\ file[s].data # <<>>
          /\ write_done_events[s]

\* The number of items of data_queue whose first component is tag.
QueuedOf(tag) ==
    Cardinality({i \in 1..Len(data_queue) : data_queue[i][1] = tag})

\* C27: the unbounded queue.Queue never holds more than one batch of a
\* source, nor more than one sentinel, so its length is at most the number
\* of engines plus one; and a source with a batch on the queue has none in
\* the writer's hands.
C27_BoundedOccupancy ==
    /\ \A s \in Sources : QueuedOf(s) <= 1
    /\ \A s \in Sources : QueuedOf(s) = 1 => InFlight(s) = 1
    /\ QueuedOf("STOP") <= 1
    /\ Len(data_queue) <= Cardinality(enabled) + 1

\* C27 witness: two engines have each put a batch, both batches are on the
\* queue and both engines wait.
C27_Witness ==
    /\ Len(data_queue) = 2
    /\ \E s \in Sources, t \in Sources :
          /\ s # t
          /\ QueuedOf(s) = 1
          /\ QueuedOf(t) = 1
          /\ epc[s] = "flush_wait"
          /\ epc[t] = "flush_wait"

\* The listing queue crawl() starts with: the normalized start URLs.
SeedQueue(s) ==
    [i \in 1..Len(start_urls[s]) |-> normalize_url(start_urls[s][i])]

\* The URL engine s considers for its queue after loading cur: Datart
\* computes the next page of cur, the other engines read the next link.
DiscoveredNext(s, cur) ==
    IF s = "datart" THEN get_next_page_url(cur)
    ELSE NextListingUrl(s, PageOf(cur))

\* C30: the listing queue of an engine is first set at the entry of crawl(),
\* to the start URLs (normalized); every later change removes its head and
\* appends nothing or one URL, the next link of the page just removed; so
\* the queue is never longer than the list of start URLs.
C30_FrontierEvolution ==
    /\ [](\A s \in Sources : Len(listing_queue[s]) <= Len(start_urls[s]))
    /\ [][\A s \in Sources :
            listing_queue'[s] # listing_queue[s] =>
                IF epc[s] = "ready"
                THEN listing_queue'[s] = SeedQueue(s)
                ELSE /\ epc[s] = "listing"
                     /\ listing_queue[s] # <<>>
                     /\ \/ listing_queue'[s] = Tail(listing_queue[s])
                        \/ listing_queue'[s] =
                              Append(Tail(listing_queue[s]),
                                     DiscoveredNext(s,
                                         Head(listing_queue[s])))]_vars

\* C30 witness: an engine seeded with two start URLs has removed the first,
\* appended the next link found on its page, and holds two URLs again.
C30_Witness ==
    \E s \in Sources :
        /\ epc[s] = "listing"
        /\ Len(start_urls[s]) = 2
        /\ Len(fetched[s]) >= 1
        /\ Len(listing_queue[s]) = 2
        /\ listing_queue[s][1] = SeedQueue(s)[2]
        /\ listing_queue[s][2] \notin {SeedQueue(s)[1], SeedQueue(s)[2]}

\* The phase of the design an engine is in, as a number: Idle 0,
\* ListingPhase 1, DetailPhase 2 (a threshold flush included), Draining 3
\* (the final flush up to quit_driver), Done 4 (the thread has ended).
PhaseRank(s) ==
    CASE epc[s] \in {"unborn", "ready"} -> 0
      [] epc[s] \in {"listing", "stolni_nav", "stolni_page"} -> 1
      [] epc[s] = "detail" -> 2
      [] epc[s] \in {"flush_clear", "flush_put", "flush_wait", "flush_reset"}
            -> IF ret[s] = "detail" THEN 2 ELSE 3
      [] epc[s] = "finish" -> 3
      [] OTHER -> 4

\* Phase 1 has nothing left to load: the listing queue is empty and, for
\* StolniPocitace, the loop over start_urls is past its last entry.
ListingExhausted(s) ==
    /\ listing_queue[s] = <<>>
    /\ s = "stolnipocitace" => start_idx[s] > Len(start_urls[s])

\* C23: the phase of an engine never decreases; up to the end of the
\* listing phase no detail URL has been visited, no record extracted,
\* collected or flushed; the detail phase is entered only with the listing
\* queue empty, and the queue stays empty from then on.
C23_TwoPhaseOrdering ==
    /\ [](\A s \in Sources :
            /\ PhaseRank(s) <= 1 =>
                  /\ visited_urls[s] = {}
                  /\ extracted[s] = {}
                  /\ collected_data[s] = <<>>
                  /\ flushed[s] = <<>>
            /\ PhaseRank(s) >= 2 => listing_queue[s] = <<>>)
    /\ [][\A s \in Sources :
            /\ PhaseRank(s)' >= PhaseRank(s)
            /\ (PhaseRank(s) <= 1 /\ PhaseRank(s)' \in {2, 3}) =>
                   ListingExhausted(s)]_vars

\* C23 witness: an engine is Done after loading listing pages, flushing a
\* full batch in the detail phase and the rest while draining.
C23_Witness ==
    \E s \in Sources :
        /\ epc[s] = "done"
        /\ Len(fetched[s]) >= 2
        /\ Len(flushed[s]) = 2
        /\ Len(flushed[s][1]) = batch_size
        /\ Len(flushed[s][2]) < batch_size

\* The path text without its last character when that is a "/".
strip_one_slash(p) ==
    IF p # <<>> /\ p[Len(p)] = "/" THEN SubSeq(p, 1, Len(p) - 1) ELSE p

\* C28, as claimed: a returned URL has the scheme and the host lower-cased
\* and the path urlparse found with a single trailing slash removed, so a
\* path ending in two slashes keeps one.
C28_SingleTrailingSlash ==
    (nu_out # <<>> /\ nu_out[1] # ValueError) =>
        /\ nu_out[1].scheme = lower(nu_url.scheme)
        /\ nu_out[1].netloc = lower(nu_url.netloc)
        /\ nu_out[1].path = strip_one_slash(urlparse(nu_url).path)

\* C28, amended: a returned URL has the scheme and the host lower-cased and
\* a path that does not end in a slash; that path is the input's path cut
\* before a run of slashes which ends the path or is followed only by
\* params (a ";" with no later slash).
C28_AllTrailingSlashes ==
    (nu_out # <<>> /\ nu_out[1] # ValueError) =>
        LET in == nu_url.path
            out == nu_out[1].path
            rem == SubSeq(in, Len(out) + 1, Len(in))
        IN /\ nu_out[1].scheme = lower(nu_url.scheme)
           /\ nu_out[1].netloc = lower(nu_url.netloc)
           /\ out = <<>> \/ out[Len(out)] # "/"
           /\ Len(out) <= Len(in)
           /\ SubSeq(in, 1, Len(out)) = out
           /\ \E k \in 0..Len(rem) :
                 /\ \A i \in 1..k : rem[i] = "/"
                 /\ k < Len(rem) =>
                       /\ rem[k + 1] = ";"
                       /\ \A i \in (k + 1)..Len(rem) : rem[i] # "/"

\* C28 witness: a URL in capitals whose path ends in two slashes has been
\* normalized, and no slash is left at the end of the path.
C28_Witness ==
    /\ nu_out # <<>>
    /\ nu_url.scheme = "HTTP"
    /\ nu_url.netloc = "H"
    /\ Len(nu_url.path) >= 2
    /\ nu_url.path[Len(nu_url.path)] = "/"
    /\ nu_url.path[Len(nu_url.path) - 1] = "/"
    /\ nu_out[1] = MkUrl("http", "h", <<>>, "")

\* seq with every immediate repetition of an element removed.
RECURSIVE Collapse(_)
Collapse(seq) ==
    IF Len(seq) <= 1 THEN seq
    ELSE IF seq[1] = seq[2] THEN Collapse(Tail(seq))
    ELSE <<seq[1]>> \o Collapse(Tail(seq))

\* Whether t can be got from seq by leaving elements out.
RECURSIVE IsSubseq(_, _)
IsSubseq(t, seq) ==
    IF t = <<>> THEN TRUE
    ELSE IF seq = <<>> THEN FALSE
    ELSE IF Head(t) = Head(seq) THEN IsSubseq(Tail(t), Tail(seq))
    ELSE IsSubseq(t, Tail(seq))

\* The listing URLs of engine s were loaded in the order they were queued:
\* the loads (an immediate reload counted once) are the queueing history
\* with the skipped URLs left out, and what is still queued is its end.
FifoOrder(s) ==
    /\ IsSubseq(Collapse(fetched[s]), enqueued[s])
    /\ IsSuffix(listing_queue[s], enqueued[s])

\* C24: every engine loads its listing URLs in the order in which they were
\* queued, the start URLs in configuration order and then the discovered
\* next URLs in discovery order.
C24_FifoListingOrder == \A s \in Sources : FifoOrder(s)

\* The engines that keep a listing queue do load in queueing order.
C24_QueueEnginesFifo ==
    \A s \in Sources \ {"stolnipocitace"} : FifoOrder(s)

\* The elements of a sequence.
Range(seq) == {seq[i] : i \in 1..Len(seq)}

\* The candidates Datart's probe has turned down, and those it has passed.
Rejected(s) == {pr[1] : pr \in {x \in probed[s] : x[2] # "items"}}
Passed(s) == {pr[1] : pr \in {x \in probed[s] : x[2] = "items"}}

\* No candidate the probe turned down is queued, loaded or visited; every
\* queued URL beyond the start URLs is paid for by a new product URL, which
\* bounds the number of listing loads; no URL is loaded twice.
ProbeSafe(s) ==
    /\ Rejected(s) \cap Range(enqueued[s]) = {}
    /\ Rejected(s) \cap Range(fetched[s]) = {}
    /\ Rejected(s) \cap visited_listings[s] = {}
    /\ Len(enqueued[s]) <= Len(start_urls[s]) + Cardinality(product_urls[s])
    /\ Len(fetched[s]) <= Len(enqueued[s])
    /\ Cardinality(Range(fetched[s])) = Len(fetched[s])

\* A step that queues a URL during the listing phase: the URL is the next
\* page of the one just loaded, that page added a product URL, and the URL
\* is not visited, was not queued, and has been passed by the probe.
ProbeStep(s) ==
    (Len(enqueued'[s]) > Len(enqueued[s]) /\ epc[s] = "listing") =>
        LET cur == Head(listing_queue[s])
            x == enqueued'[s][Len(enqueued'[s])]
        IN /\ listing_queue'[s] = Append(Tail(listing_queue[s]), x)
           /\ x = get_next_page_url(cur)
           /\ product_urls'[s] # product_urls[s]
           /\ x \notin visited_listings'[s]
           /\ x \notin Range(Tail(listing_queue[s]))
           /\ x \in Passed(s)'

\* C29 (Datart): a URL is appended to the listing queue only in a step in
\* which the loaded page added a product URL, the URL being the next page
\* of the one loaded, not visited, not queued, and passed by the probe; a
\* candidate the probe turned down is never queued and never loaded; and
\* the number of listing loads is bounded by the start URLs plus the
\* product URLs found.
C29_LookAheadProbe ==
    /\ [](ProbeSafe("datart"))
    /\ [][ProbeStep("datart")]_vars

\* C29 witness: Datart has loaded a page the probe had passed, found new
\* products on it, and the probe has turned down the page after it; the
\* listing phase is over and the rejected page was not loaded.
C29_Witness ==
    LET s == "datart"
    IN /\ epc[s] = "detail"
       /\ Passed(s) # {}
       /\ Passed(s) \subseteq Range(fetched[s])
       /\ \E r \in Rejected(s) :
             /\ r.query = "page=3"
             /\ r \notin Range(fetched[s])

\* The detail URLs of the records engine s has flushed or still collects,
\* one entry per record (between put() and the reset the batch put last is
\* still in collected_data and is counted once).
RecordUrls(s) ==
    LET recs == Concat(flushed[s]) \o
                    (IF epc[s] \in {"flush_wait", "flush_reset"} THEN <<>>
                     ELSE collected_data[s])
    IN [i \in 1..Len(recs) |-> recs[i].url]

\* C25: however often crawl() is called on an engine, extraction is called
\* once for every URL of its visited set and never again, so a later run
\* extracts nothing for a URL an earlier run has visited; no URL has two
\* records among those collected and flushed; and a run that finds only
\* visited URLs flushes nothing.
C25_RepeatedRunIdempotence ==
    /\ [](\A s \in Sources :
            /\ tries[s] = Cardinality(visited_urls[s])
            /\ Cardinality(Range(RecordUrls(s))) = Len(RecordUrls(s))
            /\ extracted[s] \subseteq visited_urls[s])
    /\ [][\A s \in Sources :
            (runs[s] >= 2 /\ visited_urls'[s] = visited_urls[s]) =>
                /\ tries'[s] = tries[s]
                /\ extracted'[s] = extracted[s]
                /\ flushed'[s] # flushed[s] => collected_data[s] # <<>>
                /\ collected_data'[s] \in {collected_data[s], <<>>}]_vars

\* C25 witness: a second run has collected again the product URLs the
\* first run had visited, skipped them all, and ended with the flushes of
\* the first run and no further extraction.
C25_Witness ==
    \E s \in Sources :
        /\ runs[s] = 2
        /\ epc[s] = "done"
        /\ product_urls[s] # {}
        /\ product_urls[s] \subseteq visited_urls[s]
        /\ tries[s] = Cardinality(product_urls[s])
        /\ Len(Concat(flushed[s])) = Cardinality(extracted[s])
        /\ extracted[s] # {}

\* Engine s is inside _flush_data.
InFlush(s) ==
    epc[s] \in {"flush_clear", "flush_put", "flush_wait", "flush_reset"}

\* C21: with the writer and the engines scheduled fairly, an engine that is
\* inside _flush_data eventually is outside it again, its batch written
\* and its event set, unless the writer has ended on a failed open or dump
\* or the process has ended.
C21_FlushLiveness ==
    \A s \in Sources :
        InFlush(s) ~>
            \/ /\ ~InFlush(s)
               /\ write_done_events[s]
               /\ written[s] >= Len(flushed[s])
            \/ wpc = "failed"
            \/ ~ProcessAlive

\* C21 witness: an engine is back in its detail loop after a flush, with
\* its event set and its batch in the file, while the other engine is
\* still waiting for the writer.
C21_Witness ==
    \E s \in Sources, t \in Sources :
        /\ epc[s] = "detail"
        /\ Len(flushed[s]) = 1
        /\ write_done_events[s]
        /\ file[s].complete
        /\ file[s].data = flushed[s][1]
        /\ epc[t] = "flush_wait"
        /\ wpc = "get"

\* The source whose batch the writer is working on in the step it is about
\* to take: the one at the head of the queue before get(), the one it holds
\* afterwards.
WriterSource ==
    IF wpc = "get" THEN Head(data_queue)[1] ELSE wcur[1]

\* C32: a step of the writer on a batch of source A leaves the result set,
\* the file and the event of every other source as they were; the event of
\* a source goes from clear to set only in the writer's set() for a batch
\* of that source, the batch it flushed last; and an engine leaves wait()
\* only with its own event set.
C32_CrossSourceFrame ==
    [][/\ (wpc \in {"get", "open", "dump", "set"} /\ wpc' # wpc) =>
              \A b \in Sources \ {WriterSource} :
                  /\ all_data'[b] = all_data[b]
                  /\ file'[b] = file[b]
                  /\ write_done_events'[b] = write_done_events[b]
       /\ \A b \in Sources :
              /\ (~write_done_events[b] /\ write_done_events'[b]) =>
                     /\ wpc = "set"
                     /\ wcur[1] = b
                     /\ wcur[2] = flushed[b][Len(flushed[b])]
              /\ (epc[b] = "flush_wait" /\ epc'[b] # "flush_wait") =>
                     write_done_events[b]]_vars

\* C32 witness: the writer has acknowledged the batch of one engine, which
\* has not yet left wait(), while the batch of another engine is on the
\* queue and that engine waits with its event clear.
C32_Witness ==
    \E a \in Sources, b \in Sources :
        /\ a # b
        /\ wpc = "get"
        /\ epc[a] = "flush_wait"
        /\ write_done_events[a]
        /\ epc[b] = "flush_wait"
        /\ ~write_done_events[b]
        /\ QueuedOf(b) = 1

\* C33: _flush_data is entered with a non-empty collected_data only, so
\* every batch put on the queue holds a record; the writer's result set
\* grows with every batch it takes; and when it opens the file for a
\* rewrite the file holds the result set without the new batch, so the
\* rewrite, once complete, leaves the file strictly longer than it was.
C33_NoEmptyBatch ==
    /\ [](/\ \A s \in Sources :
                /\ epc[s] \in {"flush_clear", "flush_put"} =>
                       collected_data[s] # <<>>
                /\ \A i \in 1..Len(flushed[s]) : flushed[s][i] # <<>>
          /\ \A i \in 1..Len(data_queue) :
                data_queue[i][1] # "STOP" => Len(data_queue[i][2]) >= 1
          /\ wpc = "open" =>
                Len(file[wcur[1]].data) =
                    Len(all_data[wcur[1]]) - Len(wcur[2]))
    /\ [][/\ (wpc = "get" /\ wpc' = "open") =>
                 Len(all_data'[wcur'[1]]) > Len(all_data[wcur'[1]])
          /\ (wpc = "dump" /\ wpc' = "set") =>
                 /\ Len(file'[wcur[1]].data) = Len(all_data[wcur[1]])
                 /\ Len(file'[wcur[1]].data) >
                        Len(all_data[wcur[1]]) - Len(wcur[2])]_vars

\* C33 witness: the writer has completed its second rewrite of a file,
\* which now holds both batches of the engine.
C33_Witness ==
    \E s \in Sources :
        /\ wpc = "set"
        /\ wcur[1] = s
        /\ written[s] = 2
        /\ Len(flushed[s]) = 2
        /\ file[s].complete
        /\ Len(file[s].data) = Len(flushed[s][1]) + Len(flushed[s][2])
        /\ Len(file[s].data) > Len(flushed[s][1])

\* C34: at the top of an iteration of the phase-2 loop collected_data holds
\* fewer than batch_size records, and no batch that was put on the queue
\* holds more than batch_size.
C34_LocalBatchBound ==
    /\ batch_size >= 1
    /\ \A s \in Sources :
          /\ epc[s] = "detail" => Len(collected_data[s]) < batch_size
          /\ Len(collected_data[s]) <= batch_size
          /\ \A i \in 1..Len(flushed[s]) : Len(flushed[s][i]) <= batch_size
    /\ \A i \in 1..Len(data_queue) :
          data_queue[i][1] # "STOP" => Len(data_queue[i][2]) <= batch_size

\* C34 witness: with a threshold of two an engine has flushed a full batch
\* and is in the loop again with one record collected.
C34_Witness ==
    \E s \in Sources :
        /\ batch_size = 2
        /\ epc[s] = "detail"
        /\ Len(collected_data[s]) = 1
        /\ Len(flushed[s]) = 1
        /\ Len(flushed[s][1]) = 2

C38_UnforgeableAsConfigured ==
    [][(wpc = "get" /\ wpc' = "stopped" /\ \A s \in Sources : name[s] = s) =>
           /\ mpc = "join_writer"
           /\ \A s \in Sources : epc[s] # "flush_wait"]_vars

\* The URL the phase-2 loop of engine s takes from product_urls in a step.
TakenUrls(s) == todo[s] \ todo'[s]

\* C35: a detail URL whose load failed is in the visited set from then on,
\* has no record, and is never extracted again: a later iteration, in this
\* or in any later run of the same engine, that takes it skips it.
C35_FailedNotRetried ==
    /\ [](\A s \in Sources :
            /\ failed[s] \subseteq visited_urls[s]
            /\ failed[s] \cap extracted[s] = {})
    /\ [][\A s \in Sources :
            /\ failed[s] \subseteq failed'[s]
            /\ (epc[s] = "detail" /\ TakenUrls(s) \cap failed[s] # {}) =>
                   /\ tries'[s] = tries[s]
                   /\ visited_urls'[s] = visited_urls[s]
                   /\ extracted'[s] = extracted[s]
                   /\ collected_data'[s] = collected_data[s]
                   /\ epc'[s] = "detail"]_vars

\* C35 witness: the second run of an engine has collected again a product
\* URL whose load failed in the first run, has taken it from the loop and
\* skipped it, and has ended; the URL has no record.
C35_Witness ==
    \E s \in Sources :
        /\ runs[s] = 2
        /\ epc[s] = "done"
        /\ \E u \in failed[s] :
              /\ u \in product_urls[s]
              /\ u \notin todo[s]
              /\ u \notin extracted[s]
        /\ tries[s] = Cardinality(visited_urls[s])
        /\ extracted[s] # {}

\* u and v are two spellings that differ in query or fragment and in
\* nothing else.
SameButQuery(u, v) ==
    /\ u # v
    /\ [u EXCEPT !.query = "", !.fragment = ""] =
       [v EXCEPT !.query = "", !.fragment = ""]

\* How many page loads of engine s went to one of the URLs of set U, an
\* immediate reload counted once.
LoadsOf(s, U) ==
    LET loads == Collapse(fetched[s])
    IN Cardinality({k \in DOMAIN loads : loads[k] \in U})

\* Two start URLs of engine s that differ only in query or fragment entered
\* the frontier as one and the same entry, and at most one load went to
\* them.
SeedsQueryInsensitive(s) ==
    \A i, j \in DOMAIN start_urls[s] :
        SameButQuery(start_urls[s][i], start_urls[s][j]) =>
            /\ Len(enqueued[s]) >= Len(start_urls[s]) =>
                   enqueued[s][i] = enqueued[s][j]
            /\ LoadsOf(s, {start_urls[s][i], start_urls[s][j]}) <= 1

\* The next link of the page Pocitarna is about to load differs from a
\* listing URL visited by then in its query only.
NextDiffersInQuery(s) ==
    /\ epc[s] = "listing"
    /\ listing_queue[s] # <<>>
    /\ Head(listing_queue[s]) \notin visited_listings[s]
    /\ LET p == PageOf(Head(listing_queue[s]))
       IN /\ p \in DOMAIN nextHref
          /\ nextHref[p] # NoneVal
          /\ \E v \in visited_listings[s] \cup {Head(listing_queue[s])} :
                 SameButQuery(nextHref[p], v)

\* Such a link is not appended: the iteration leaves the rest of the queue.
PocitarnaQueryStep(s) ==
    (NextDiffersInQuery(s) /\ fetched'[s] # fetched[s]) =>
        /\ listing_queue'[s] = Tail(listing_queue[s])
        /\ enqueued'[s] = enqueued[s]

\* C37: normalize_url drops query and fragment, so two start URLs that
\* differ only there are one frontier entry of which one load is made, in
\* every engine; and Pocitarna never queues a next link that differs from a
\* visited listing URL in its query only.
C37_QueryInsensitiveIdentity ==
    /\ [](\A s \in Sources : SeedsQueryInsensitive(s))
    /\ [][PocitarnaQueryStep("pocitarna")]_vars

\* The engines that keep a listing queue do treat such start URLs as one
\* entry, and Pocitarna does skip such a next link.
C37_QueueEnginesQueryInsensitive ==
    /\ [](\A s \in Sources \ {"stolnipocitace"} : SeedsQueryInsensitive(s))
    /\ [][PocitarnaQueryStep("pocitarna")]_vars

\* Pocitarna has loaded a page whose next link differed from a visited
\* listing URL in its query only, and has ended phase 1 with one load.
C37_PocitarnaSkipped ==
    /\ epc["pocitarna"] = "detail"
    /\ nextHref[PageOf(L1)] = L1q
    /\ fetched["pocitarna"] = <<L1>>
    /\ enqueued["pocitarna"] = <<L1, L1>>

\* The URLs the browser of StolniPocitace can show: the start URLs and the
\* next links of the web.
PageUrls(s) ==
    Range(start_urls[s]) \cup {nextHref[p] : p \in DOMAIN nextHref}

\* What is left of phase 1 of StolniPocitace: the page URLs not yet in
\* visited_listings and the start URLs whose category has not ended.
PaginationLeft(s) ==
    Cardinality(PageUrls(s) \ visited_listings[s])
    + (Len(start_urls[s]) + 1 - start_idx[s])

\* One iteration of the while True loop: it begins on a page and ends with
\* the break, with the click, or with the exception the click raised.
PaginationIteration(s) ==
    /\ epc[s] = "stolni_page"
    /\ <<epc[s], visited_listings[s], start_idx[s], fetched[s]>>' #
       <<epc[s], visited_listings[s], start_idx[s], fetched[s]>>

\* The iteration ends the category.
EndsCategory(s) ==
    /\ epc'[s] = "stolni_nav"
    /\ start_idx'[s] = start_idx[s] + 1
    /\ fetched'[s] = fetched[s]

\* Every iteration adds the current URL, not seen before, to the visited
\* set, or ends the category on a URL seen before; either way less is left.
PaginationStep(s) ==
    PaginationIteration(s) =>
        /\ \/ /\ current_url[s] \notin visited_listings[s]
              /\ visited_listings'[s] =
                     visited_listings[s] \cup {current_url[s]}
           \/ /\ current_url[s] \in visited_listings[s]
              /\ visited_listings'[s] = visited_listings[s]
              /\ EndsCategory(s)
        /\ (nextHref[PageOf(current_url[s])] = NoneVal) => EndsCategory(s)
        /\ PaginationLeft(s)' < PaginationLeft(s)

\* C36: in StolniPocitace every iteration of the pagination loop adds a
\* current URL not seen before to visited_listings or ends the category
\* (URL seen before, or no next button), and what is left of phase 1, a
\* natural number, gets smaller with every iteration, so the loop ends; a
\* click after which the browser shows a URL seen before ends the category
\* in the next iteration.
C36_ClickPaginationTerminates ==
    /\ [](/\ PaginationLeft("stolnipocitace") >= 0
          /\ visited_listings["stolnipocitace"] \subseteq
                 PageUrls("stolnipocitace"))
    /\ [][PaginationStep("stolnipocitace")]_vars

\* C36 witness: the next button of the start page was clicked, the browser
\* showed the URL it had shown before, and the category ended with that one
\* URL visited.
C36_Witness ==
    LET s == "stolnipocitace"
    IN /\ start_urls[s] = <<L0>>
       /\ nextHref[PageOf(L0)] = L0
       /\ fetched[s] = <<L0, L0>>
       /\ visited_listings[s] = {L0}
       /\ epc[s] = "stolni_nav"
       /\ start_idx[s] = 2

\* main(), the writer and every engine wait for one another: main() in a
\* join, the writer in data_queue.get() on an empty queue, and every engine
\* that has not ended in write_done_event.wait() on a cleared event.
Deadlocked ==
    /\ ProcessAlive
    /\ \/ /\ mpc = "engines"
          /\ \A s \in enabled : epc[s] # "unborn"
          /\ \E s \in enabled : epc[s] \notin {"done", "crashed"}
       \/ /\ mpc = "join_writer"
          /\ wpc \notin {"stopped", "failed"}
    /\ wpc = "get"
    /\ data_queue = <<>>
    /\ \A s \in enabled :
           \/ epc[s] \in {"done", "crashed"}
           \/ epc[s] = "flush_wait" /\ ~write_done_events[s]

\* The ways a run ends that the claim leaves aside: a failed open or dump,
\* an engine that could not be constructed, a KeyboardInterrupt.
RunAborted ==
    \/ wpc = "failed"
    \/ mpc \in {"crashed", "interrupted"}

\* C31: with every thread scheduled fairly and no persistence failure, a
\* run that has begun ends with every engine at Done (crawl() returned after
\* its last flush), the sentinel taken, the writer stopped and main()
\* returned; and no state is a deadlock of engines, writer and main().
C31_RunTerminates ==
    /\ [](~Deadlocked)
    /\ (mpc = "start_writer") ~> (RunComplete \/ RunAborted)

\* The run does end, and without a deadlock: main() returns with the writer
\* stopped and every engine thread ended, by return or by an exception.
C31_RunEnds ==
    /\ [](~Deadlocked)
    /\ (mpc = "start_writer") ~>
           \/ RunAborted
           \/ /\ mpc = "done"
              /\ wpc = "stopped"
              /\ \A s \in enabled : epc[s] \in {"done", "crashed"}

====
